---------------------------- MODULE Spec2Model ----------------------------
(***************************************************************************)
(* Model of the token synchronisation thunks of                            *)
(* src/redux/providers/tokensActions.js and of the dapp registry helpers   *)
(* of src/unnamed/part_000.                                                *)
(*                                                                         *)
(* Every asynchronous call (a thunk invocation and its promise chain) is a *)
(* record of the sequence `calls`; one action is one turn of the event     *)
(* loop: the settlement of an outstanding collaborator promise followed by *)
(* the continuations the source chains on it.                              *)
(***************************************************************************)
EXTENDS Integers, Sequences, FiniteSets, TLC

VARIABLES
    tokens,      \* getState().tokens: token id -> token
    store,       \* the local store: chain -> cache entry
    iconImages,  \* IconCache.get().images: token index -> image
    calls,       \* the thunk invocations since the application's last one, in order
    regCount,    \* the number of tokens the registry contract holds
    regImage,    \* the image version the registry currently serves
    netChain,    \* getState().nodeStatus.netChain
    failures,    \* collaborator failures injected so far
    userCalls,   \* thunks invoked by the application so far
    dapp,        \* the call of the dapp registry helpers under way, or the last one
    sub,         \* what subscribeToChanges has set up: the filter, the subscription
    polls        \* one record per new-block notification: the poll it started

tokenVars == <<tokens, store, iconImages, calls, regCount, regImage, netChain,
               failures, userCalls>>

dappVars == <<dapp, sub, polls>>

vars == <<tokenVars, dappVars>>

(***************************************************************************)
(* Program constants and bounds                                            *)
(***************************************************************************)
limit == 64

ChunkSize == 64

SmallCount == 3

BigCount == 65

MaxImage == 2

MaxFailures == 2

MaxUserCalls == 2

Chains == {"foundation", "kovan"}

RegAddress == "0xregA"

StaleAddress == "0xregB"

(***************************************************************************)
(* Sequences and objects                                                   *)
(***************************************************************************)
Range(n) == [i \in 1..n |-> i - 1]

Elems(s) == {s[i] : i \in 1..Len(s)}

Min(S) == CHOOSE x \in S : \A y \in S : x <= y

RECURSIVE SortedSeq(_)
SortedSeq(S) == IF S = {} THEN <<>>
                ELSE <<Min(S)>> \o SortedSeq(S \ {Min(S)})

\* uniq, were every occurrence kept
uniqKeepsAll(s) == s

\* lodash uniq: the first occurrence of every value, in order
uniq(s) ==
    LET keep == {i \in 1..Len(s) : \A j \in 1..(i - 1) : s[j] # s[i]}
        pos  == SortedSeq(keep)
    IN  [k \in 1..Len(pos) |-> s[pos[k]]]

\* lodash chunk: consecutive slices of `size` elements, the last one shorter
chunk(s, size) ==
    LET n == (Len(s) + size - 1) \div size
    IN  [k \in 1..n |->
            SubSeq(s, (k - 1) * size + 1,
                   IF k * size < Len(s) THEN k * size ELSE Len(s))]

EmptyMap == <<>>

\* { ...a, ...b }
ObjectSpread(a, b) ==
    [k \in (DOMAIN a) \cup (DOMAIN b) |-> IF k \in DOMAIN b THEN b[k] ELSE a[k]]

(***************************************************************************)
(* Tokens and the collaborators of ../../util/tokens                       *)
(***************************************************************************)
TokenId(index) == <<"token", index>>

BasicToken(index) ==
    [id |-> TokenId(index), index |-> index, fetched |-> FALSE, image |-> 0]

InfoToken(index, image) ==
    [id |-> TokenId(index), index |-> index, fetched |-> TRUE, image |-> image]

\* the map keyed by id of a set of tokens
ById(toks) == [k \in {t.id : t \in toks} |-> CHOOSE t \in toks : t.id = k]

\* the reducer's answer to the action { type: 'setTokens', tokens }
TokensReducer(state, actionTokens) == ObjectSpread(state, actionTokens)

\* fetchTokenIds(instance): the indices of the registered tokens
FetchTokenIdsResult(count) == Range(count)

\* the registry slots a fetchTokensBasics(api, contract, start, limit) covers
Covered(start, lim) == start..(start + lim - 1)

\* fetchTokensBasics(api, contract, start, limit): the registered tokens of
\* the covered slots, not yet fetched
FetchTokensBasicsResult(count, start, lim) ==
    {BasicToken(i) : i \in Covered(start, lim) \cap 0..(count - 1)}

\* fetchTokensInfo(api, contract, indexes): one full token per index
FetchTokensInfoResult(indexes, image) ==
    [k \in 1..Len(indexes) |-> InfoToken(indexes[k], image)]

\* fetchTokensImages(api, contract, indexes): one image per index
FetchTokensImagesResult(indexes, image) ==
    [k \in 1..Len(indexes) |-> image]

(***************************************************************************)
(* Call records                                                            *)
(***************************************************************************)
NoEntry == [present |-> FALSE, tokenreg |-> "", hasTokens |-> FALSE,
            tokens |-> EmptyMap]

Event(ev, a, b) == [ev |-> ev, a |-> a, b |-> b]

NoCall ==
    [kind |-> "none", pc |-> "none", parent |-> 0, awaited |-> FALSE,
     indexes |-> <<>>, prev |-> {}, seen |-> EmptyMap,
     full |-> <<>>, partial |-> <<>>, start |-> 0,
     next |-> EmptyMap, merged |-> EmptyMap, cached |-> NoEntry,
     dispatched |-> 0, log |-> <<>>, request |-> <<>>]

Ids == 1..Len(calls)

Logged(c, ev) == \E i \in 1..Len(c.log) : c.log[i].ev = ev

CachedTokens == ById({InfoToken(0, 1), BasicToken(1)})

InitEntries ==
    {NoEntry,
     [present |-> TRUE, tokenreg |-> StaleAddress, hasTokens |-> TRUE,
      tokens |-> CachedTokens],
     [present |-> TRUE, tokenreg |-> RegAddress, hasTokens |-> FALSE,
      tokens |-> EmptyMap],
     [present |-> TRUE, tokenreg |-> RegAddress, hasTokens |-> TRUE,
      tokens |-> CachedTokens]}

\* TOKENS_CACHE_LS_KEY_PREFIX + nodeStatus.netChain
LsKey(chain) == <<"_parity::tokens::", chain>>

LsKeys == {LsKey(ch) : ch \in Chains}


(***************************************************************************)
(* The synchronous part of each thunk                                      *)
(***************************************************************************)
\* Object.values(tokens).map((t) => t.index)
TokenIndexes(toks) == {toks[k].index : k \in DOMAIN toks}

\* allTokens.filter((token) => token.fetched).map((token) => token.index)
FetchedTokenIndexes(toks) == {toks[k].index : k \in {j \in DOMAIN toks : toks[j].fetched}}

\* tokensIndexesMap, kept for the requested indexes
TokensIndexesMap(toks, wanted) ==
    [i \in TokenIndexes(toks) \cap wanted |->
        toks[CHOOSE k \in DOMAIN toks : toks[k].index = i]]

\* Classify, were a token known to the state taken for a fetched one
ClassifyByPresence(tokenIndexes, toks) ==
    LET known == TokenIndexes(toks)
        IsPartial(i) == i \in known
        IsFull(i) == i \notin known
    IN  [full |-> SelectSeq(tokenIndexes, IsFull),
         partial |-> SelectSeq(tokenIndexes, IsPartial)]

\* the split of the requested indexes into fullIndexes and partialIndexes
Classify(tokenIndexes, toks) ==
    LET fetchedTokenIndexes == FetchedTokenIndexes(toks)
        IsPartial(i) == i \in fetchedTokenIndexes
        IsFull(i) == i \notin fetchedTokenIndexes
    IN  [full |-> SelectSeq(tokenIndexes, IsFull),
         partial |-> SelectSeq(tokenIndexes, IsPartial)]

\* fetchTokensData(tokenRegContract, tokenIndexes)(dispatch, getState) up to
\* the two collaborator calls
FetchTokensDataStart(toks, tokenIndexes, parent, awaited) ==
    LET split == Classify(tokenIndexes, toks)
    IN  [NoCall EXCEPT
            !.kind = "fetchTokensData", !.pc = "fetching",
            !.parent = parent, !.awaited = awaited,
            !.indexes = tokenIndexes,
            !.seen = TokensIndexesMap(toks, Elems(tokenIndexes)),
            !.full = split.full, !.partial = split.partial,
            !.log = <<Event("fetchTokensInfo", Len(split.full), 0),
                      Event("fetchTokensImages", Len(split.partial), 0)>>]

\* setTokens(nextTokens)(dispatch, getState) up to tokenReg.getContract()
SetTokensStart(toks, nextTokens, parent) ==
    [NoCall EXCEPT
        !.kind = "setTokens", !.pc = "getContract", !.parent = parent,
        !.next = nextTokens, !.merged = ObjectSpread(toks, nextTokens),
        !.log = <<Event("getContract", 0, 0)>>]

\* the indexes loadTokensBasics keeps: those no token of the state holds
MissingIndexes(_tokenIndexes, prevTokensIndexes) ==
    LET Missing(i) == i \notin prevTokensIndexes
    IN  SelectSeq(_tokenIndexes, Missing)

\* LoadTokensBasicsStart, were the indexes another loadTokensBasics call has
\* taken on left out as well
LoadTokensBasicsStartOnce(toks, _tokenIndexes, parent) ==
    LET taken == UNION {Elems(calls[c].indexes) :
                           c \in {x \in Ids : calls[x].kind = "loadTokensBasics"}}
        prevTokensIndexes == TokenIndexes(toks)
        tokenIndexes == MissingIndexes(_tokenIndexes, prevTokensIndexes \cup taken)
    IN  [NoCall EXCEPT
            !.kind = "loadTokensBasics",
            !.pc = IF Len(tokenIndexes) = 0 THEN "resolved" ELSE "getContract",
            !.parent = parent, !.awaited = parent # 0,
            !.indexes = tokenIndexes, !.prev = prevTokensIndexes,
            !.log = IF Len(tokenIndexes) = 0 THEN <<>>
                    ELSE <<Event("getContract", 0, 0)>>]

\* loadTokensBasics(_tokenIndexes, options)(dispatch, getState) up to
\* tokenReg.getContract()
LoadTokensBasicsStart(toks, _tokenIndexes, parent) ==
    LET prevTokensIndexes == TokenIndexes(toks)
        tokenIndexes == MissingIndexes(_tokenIndexes, prevTokensIndexes)
    IN  [NoCall EXCEPT
            !.kind = "loadTokensBasics",
            !.pc = IF Len(tokenIndexes) = 0 THEN "resolved" ELSE "getContract",
            !.parent = parent, !.awaited = parent # 0,
            !.indexes = tokenIndexes, !.prev = prevTokensIndexes,
            !.log = IF Len(tokenIndexes) = 0 THEN <<>>
                    ELSE <<Event("getContract", 0, 0)>>]

\* CachedFetchedIndexes, were the cached tokens not filtered on fetched
CachedAllIndexes(cachedTokens) == SortedSeq(TokenIndexes(cachedTokens))

\* the cached tokens whose images loadCachedTokens refreshes
CachedFetchedIndexes(cachedTokens) == SortedSeq(FetchedTokenIndexes(cachedTokens))

\* LoadCachedTokens, were the address of the entry not compared
LoadCachedTokensAnyAddress(toks, st, chain, self) ==
    LET lsKey == LsKey(chain)
        cached == st[lsKey]
    IN  IF ~cached.present
        THEN [tokens |-> toks, store |-> st, started |-> <<>>, log |-> <<>>]
        ELSE IF cached.hasTokens
        THEN LET hydrated == TokensReducer(toks, cached.tokens)
             IN  [tokens |-> hydrated, store |-> st,
                  started |-> <<FetchTokensDataStart(hydrated,
                                   CachedFetchedIndexes(cached.tokens), self, FALSE)>>,
                  log |-> <<Event("dispatchCached", 0, 0),
                            Event("fetchTokensData", 0, 0)>>]
        ELSE [tokens |-> toks, store |-> [st EXCEPT ![lsKey] = NoEntry],
              started |-> <<>>, log |-> <<Event("storeRemove", 0, 0)>>]

\* loadCachedTokens(tokenRegContract)(dispatch, getState), as the call `self`
\* of loadTokens runs it: the state after it, the call it starts, its trace
LoadCachedTokens(toks, st, chain, self) ==
    LET lsKey == LsKey(chain)
        cached == st[lsKey]
    IN  IF ~cached.present
        THEN [tokens |-> toks, store |-> st, started |-> <<>>, log |-> <<>>]
        ELSE IF cached.tokenreg = RegAddress /\ cached.hasTokens
        THEN LET hydrated == TokensReducer(toks, cached.tokens)
             IN  [tokens |-> hydrated, store |-> st,
                  started |-> <<FetchTokensDataStart(hydrated,
                                   CachedFetchedIndexes(cached.tokens), self, FALSE)>>,
                  log |-> <<Event("dispatchCached", 0, 0),
                            Event("fetchTokensData", 0, 0)>>]
        ELSE [tokens |-> toks, store |-> [st EXCEPT ![lsKey] = NoEntry],
              started |-> <<>>, log |-> <<Event("storeRemove", 0, 0)>>]

(***************************************************************************)
(* Initial state and the application's invocations                         *)
(***************************************************************************)
\* the requests the application makes of fetchTokens and loadTokensBasics:
\* lists of indices of registered tokens
Requests == {<<>>, <<1, 1, 0>>, Range(SmallCount), Range(regCount)}

\* the registries and caches the application may start with
InitStores(count) ==
    {st \in [LsKeys -> InitEntries] :
        /\ st[LsKey("foundation")].tokenreg = StaleAddress
        /\ count > SmallCount => ~st[LsKey("kovan")].present}

\* the state before any thunk is invoked
TokenInit ==
    /\ tokens = EmptyMap
    /\ netChain = "kovan"
    /\ regCount \in {SmallCount, BigCount}
    /\ store \in InitStores(regCount)
    /\ iconImages = EmptyMap
    /\ calls = <<>>
    /\ regImage = 1
    /\ failures = 0
    /\ userCalls = 0

\* the state before any dapp registry helper is called
NoDappCall ==
    [fn |-> "none", pc |-> "none", out |-> "none", appId |-> <<>>,
     manifestId |-> <<>>, hash |-> <<>>, count |-> 0, entries |-> <<>>,
     ids |-> <<>>, apps |-> <<>>, result |-> "none", manifest |-> "none",
     gets |-> <<>>, json |-> <<>>, app |-> <<>>, cause |-> "none"]

NoSubscription == [filter |-> -1, registered |-> FALSE, blocks |-> 0]

DappInit ==
    /\ dapp = NoDappCall
    /\ sub = NoSubscription
    /\ polls = <<>>

Init == TokenInit /\ DappInit

\* the call `c` with its promise resolved, `evs` appended to its trace
Resolved(c, evs) == [c EXCEPT !.pc = "resolved", !.log = @ \o evs]

\* no promise is outstanding: every call made so far has settled
Quiescent == \A c \in Ids : calls[c].pc \in {"resolved", "rejected"}

\* The application invokes a thunk once the previous invocation has settled;
\* the settled calls are then dropped from `calls`. A registry of more than
\* SmallCount tokens is followed for one invocation fewer.
UserCallsAllowed ==
    IF regCount > SmallCount THEN MaxUserCalls - 1 ELSE MaxUserCalls

\* loadTokens(options)(dispatch, getState) up to tokenReg.getContract()
CallLoadTokens ==
    /\ userCalls < UserCallsAllowed /\ Quiescent
    /\ userCalls' = userCalls + 1
    /\ calls' = <<[NoCall EXCEPT !.kind = "loadTokens", !.pc = "getContract",
                                 !.log = <<Event("getContract", 0, 0)>>]>>
    /\ UNCHANGED <<dappVars, tokens, store, iconImages, regCount, regImage, netChain, failures>>

CallLoadTokensBasics ==
    /\ userCalls < UserCallsAllowed /\ Quiescent
    /\ userCalls' = userCalls + 1
    /\ \E req \in Requests :
          calls' = <<LoadTokensBasicsStart(tokens, req, 0)>>
    /\ UNCHANGED <<dappVars, tokens, store, iconImages, regCount, regImage, netChain, failures>>

\* fetchTokens(_tokenIndexes, options)(dispatch, getState) up to
\* tokenReg.getContract()
CallFetchTokens ==
    /\ userCalls < UserCallsAllowed /\ Quiescent
    /\ userCalls' = userCalls + 1
    /\ \E req \in Requests :
          calls' = <<[NoCall EXCEPT !.kind = "fetchTokens", !.pc = "getContract",
                                    !.request = req,
                                    !.indexes = uniq(req),
                                    !.log = <<Event("getContract", 0, 0)>>]>>
    /\ UNCHANGED <<dappVars, tokens, store, iconImages, regCount, regImage, netChain, failures>>

\* the registry serves another image
RegistryImageChanges ==
    /\ regImage < MaxImage /\ Quiescent
    /\ regImage' = regImage + 1
    /\ UNCHANGED <<dappVars, tokens, store, iconImages, calls, regCount, netChain, failures, userCalls>>

(***************************************************************************)
(* loadTokens                                                              *)
(***************************************************************************)
\* LoadTokensOnContract, were fetchTokenIds called before loadCachedTokens
LoadTokensIdsFirst(c) ==
    LET r == LoadCachedTokens(tokens, store, netChain, c)
    IN  [tokens |-> r.tokens, store |-> r.store,
         calls |-> [calls EXCEPT ![c] =
                       [@ EXCEPT !.pc = "fetchTokenIds",
                                 !.cached = store[LsKey(netChain)],
                                 !.log = @ \o <<Event("fetchTokenIds", 0, 0)>> \o r.log]]
                   \o r.started]

\* the first .then of loadTokens: loadCachedTokens, then fetchTokenIds
LoadTokensOnContract(c) ==
    LET r == LoadCachedTokens(tokens, store, netChain, c)
    IN  [tokens |-> r.tokens, store |-> r.store,
         calls |-> [calls EXCEPT ![c] =
                       [@ EXCEPT !.pc = "fetchTokenIds",
                                 !.cached = store[LsKey(netChain)],
                                 !.log = @ \o r.log \o <<Event("fetchTokenIds", 0, 0)>>]]
                   \o r.started]

LoadTokensGotContract(c) ==
    /\ calls[c].kind = "loadTokens" /\ calls[c].pc = "getContract"
    /\ LET n == LoadTokensOnContract(c)
       IN  tokens' = n.tokens /\ store' = n.store /\ calls' = n.calls
    /\ UNCHANGED <<dappVars, iconImages, regCount, regImage, netChain, failures, userCalls>>

\* store.get throws inside loadCachedTokens: the .catch of loadTokens runs
LoadTokensCacheReadThrows(c) ==
    /\ calls[c].kind = "loadTokens" /\ calls[c].pc = "getContract"
    /\ failures < MaxFailures
    /\ failures' = failures + 1
    /\ calls' = [calls EXCEPT ![c] =
          Resolved(@, <<Event("storeGetThrew", 0, 0), Event("warn", 0, 0)>>)]
    /\ UNCHANGED <<dappVars, tokens, store, iconImages, regCount, regImage, netChain, userCalls>>

LoadTokensContractFailed(c) ==
    /\ calls[c].kind = "loadTokens" /\ calls[c].pc = "getContract"
    /\ failures < MaxFailures
    /\ failures' = failures + 1
    /\ calls' = [calls EXCEPT ![c] =
          Resolved(@, <<Event("getContractRejected", 0, 0), Event("warn", 0, 0)>>)]
    /\ UNCHANGED <<dappVars, tokens, store, iconImages, regCount, regImage, netChain, userCalls>>

\* the second .then of loadTokens: loadTokensBasics(tokenIndexes, options)
LoadTokensGotIds(c) ==
    /\ calls[c].kind = "loadTokens" /\ calls[c].pc = "fetchTokenIds"
    /\ LET child == LoadTokensBasicsStart(tokens, FetchTokenIdsResult(regCount), c)
       IN  calls' = [calls EXCEPT ![c] =
                        IF child.pc = "resolved" THEN Resolved(@, <<>>)
                        ELSE [@ EXCEPT !.pc = "loadTokensBasics"]]
                    \o <<child>>
    /\ UNCHANGED <<dappVars, tokens, store, iconImages, regCount, regImage, netChain, failures, userCalls>>

LoadTokensIdsFailed(c) ==
    /\ calls[c].kind = "loadTokens" /\ calls[c].pc = "fetchTokenIds"
    /\ failures < MaxFailures
    /\ failures' = failures + 1
    /\ calls' = [calls EXCEPT ![c] =
          Resolved(@, <<Event("fetchTokenIdsRejected", 0, 0), Event("warn", 0, 0)>>)]
    /\ UNCHANGED <<dappVars, tokens, store, iconImages, regCount, regImage, netChain, userCalls>>

(***************************************************************************)
(* loadTokensBasics                                                        *)
(***************************************************************************)
\* `cs` with the loadTokensBasics call c resolved, and with it the loadTokens
\* call that returned its promise
BasicsResolved(cs, c, evs) ==
    LET p == cs[c].parent
        own == [cs EXCEPT ![c] = Resolved(@, evs)]
    IN  IF p = 0 THEN own ELSE [own EXCEPT ![p] = Resolved(@, <<>>)]

\* NextBatchStart, were the loop left after its first round
NextBatchStartNone(start, count) == -1

\* the start of the batch after the one at `start`, or -1 after the last one
NextBatchStart(start, count) ==
    IF start + limit < count THEN start + limit ELSE -1

LoadTokensBasicsGotContract(c) ==
    /\ calls[c].kind = "loadTokensBasics" /\ calls[c].pc = "getContract"
    /\ calls' = [calls EXCEPT ![c] =
          [@ EXCEPT !.pc = "batch", !.start = 0,
                    !.log = @ \o <<Event("fetchTokensBasics", 0, limit)>>]]
    /\ UNCHANGED <<dappVars, tokens, store, iconImages, regCount, regImage, netChain, failures, userCalls>>

LoadTokensBasicsContractFailed(c) ==
    /\ calls[c].kind = "loadTokensBasics" /\ calls[c].pc = "getContract"
    /\ failures < MaxFailures
    /\ failures' = failures + 1
    /\ calls' = BasicsResolved(calls, c,
          <<Event("getContractRejected", 0, 0), Event("warn", 0, 0)>>)
    /\ UNCHANGED <<dappVars, tokens, store, iconImages, regCount, regImage, netChain, userCalls>>

\* a batch resolves: its tokens are merged into nextTokens, and either the
\* next batch is requested or setTokens(nextTokens) is dispatched
LoadTokensBasicsGotBatch(c) ==
    /\ calls[c].kind = "loadTokensBasics" /\ calls[c].pc = "batch"
    /\ LET me == calls[c]
           results == FetchTokensBasicsResult(regCount, me.start, limit)
           nextTokens == ObjectSpread(me.next, ById(results))
           following == NextBatchStart(me.start, Len(me.indexes))
       IN  IF following >= 0
           THEN calls' = [calls EXCEPT ![c] =
                   [@ EXCEPT !.next = nextTokens, !.start = following,
                             !.log = @ \o <<Event("fetchTokensBasicsResolved", me.start, 0),
                                            Event("fetchTokensBasics", following, limit)>>]]
           ELSE calls' =
                   BasicsResolved([calls EXCEPT ![c].next = nextTokens], c,
                                  <<Event("fetchTokensBasicsResolved", me.start, 0),
                                    Event("setTokens", 0, 0)>>)
                   \o <<SetTokensStart(tokens, nextTokens, c)>>
    /\ UNCHANGED <<dappVars, tokens, store, iconImages, regCount, regImage, netChain, failures, userCalls>>

LoadTokensBasicsBatchFailed(c) ==
    /\ calls[c].kind = "loadTokensBasics" /\ calls[c].pc = "batch"
    /\ failures < MaxFailures
    /\ failures' = failures + 1
    /\ calls' = BasicsResolved(calls, c,
          <<Event("fetchTokensBasicsRejected", 0, 0), Event("warn", 0, 0)>>)
    /\ UNCHANGED <<dappVars, tokens, store, iconImages, regCount, regImage, netChain, userCalls>>

(***************************************************************************)
(* fetchTokens and fetchTokensData                                         *)
(***************************************************************************)
\* the object the reduce of fetchTokensData builds: tokens[id] = token for
\* every result in turn, a later result replacing an earlier one
KeyedById(results) ==
    [id \in {results[k].id : k \in 1..Len(results)} |->
        results[CHOOSE k \in 1..Len(results) :
                    /\ results[k].id = id
                    /\ \A j \in (k + 1)..Len(results) : results[j].id # id]]

\* what fetchTokensData hands to setTokens once both fetches have resolved
FetchedTokens(d, image) ==
    LET fullResults == FetchTokensInfoResult(d.full, image)
        imagesResult == FetchTokensImagesResult(d.partial, image)
        partialResults ==
            [k \in 1..Len(imagesResult) |->
                [d.seen[d.partial[k]] EXCEPT !.image = imagesResult[k]]]
    IN  KeyedById(fullResults \o partialResults)

\* iconCache.add(address, image, true) for every result whose image differs
IconCacheAdd(images, toks) ==
    LET changed == {k \in DOMAIN toks :
                       \/ toks[k].index \notin DOMAIN images
                       \/ images[toks[k].index] # toks[k].image}
        added == [i \in {toks[k].index : k \in changed} |->
                     toks[CHOOSE k \in changed : toks[k].index = i].image]
    IN  ObjectSpread(images, added)

\* the chain of fetchTokens `p` moves on: fetchTokensData of the next chunk,
\* or the final .then once every chunk is done
FetchTokensStep(cs, p, toks) ==
    LET tokenChunks == chunk(cs[p].indexes, ChunkSize)
        k == cs[p].start
    IN  IF k < Len(tokenChunks)
        THEN [cs EXCEPT ![p] =
                 [@ EXCEPT !.pc = "chunk", !.start = k + 1,
                           !.log = @ \o <<Event("fetchTokensData", k + 1,
                                                Len(tokenChunks[k + 1]))>>]]
             \o <<FetchTokensDataStart(toks, tokenChunks[k + 1], p, TRUE)>>
        ELSE [cs EXCEPT ![p] = Resolved(@, <<Event("debug", 0, 0)>>)]

FetchTokensGotContract(c) ==
    /\ calls[c].kind = "fetchTokens" /\ calls[c].pc = "getContract"
    /\ calls' = FetchTokensStep(calls, c, tokens)
    /\ UNCHANGED <<dappVars, tokens, store, iconImages, regCount, regImage, netChain, failures, userCalls>>

FetchTokensContractFailed(c) ==
    /\ calls[c].kind = "fetchTokens" /\ calls[c].pc = "getContract"
    /\ failures < MaxFailures
    /\ failures' = failures + 1
    /\ calls' = [calls EXCEPT ![c] =
          Resolved(@, <<Event("getContractRejected", 0, 0), Event("warn", 0, 0)>>)]
    /\ UNCHANGED <<dappVars, tokens, store, iconImages, regCount, regImage, netChain, userCalls>>

\* Promise.all([ fullPromise, partialPromise ]) resolves: the icon cache is
\* updated, setTokens(tokens) is dispatched, and the chain that awaits this
\* call moves on
FetchTokensDataGot(d) ==
    /\ calls[d].kind = "fetchTokensData" /\ calls[d].pc = "fetching"
    /\ LET me == calls[d]
           fetched == FetchedTokens(me, regImage)
           done == [calls EXCEPT ![d] = Resolved(@, <<Event("setTokens", 0, 0)>>)]
                   \o <<SetTokensStart(tokens, fetched, d)>>
       IN  /\ iconImages' = IconCacheAdd(iconImages, fetched)
           /\ calls' = IF me.awaited THEN FetchTokensStep(done, me.parent, tokens)
                       ELSE done
    /\ UNCHANGED <<dappVars, tokens, store, regCount, regImage, netChain, failures, userCalls>>

\* fetchTokensInfo or fetchTokensImages rejects: Promise.all rejects, and so
\* does the promise of fetchTokensData; only a chain that awaits it catches
FetchTokensDataFailed(d) ==
    /\ calls[d].kind = "fetchTokensData" /\ calls[d].pc = "fetching"
    /\ failures < MaxFailures
    /\ failures' = failures + 1
    /\ \E which \in {"fetchTokensInfoRejected", "fetchTokensImagesRejected"} :
          LET me == calls[d]
              failed == [calls EXCEPT ![d] =
                            [@ EXCEPT !.pc = "rejected",
                                      !.log = @ \o <<Event(which, 0, 0)>>]]
          IN  calls' = IF me.awaited
                       THEN [failed EXCEPT ![me.parent] =
                                Resolved(@, <<Event("warn", 0, 0)>>)]
                       ELSE failed
    /\ UNCHANGED <<dappVars, tokens, store, iconImages, regCount, regImage, netChain, userCalls>>

(***************************************************************************)
(* setTokens                                                               *)
(***************************************************************************)
\* store.set(lsKey, { tokenreg: tokenRegContract.address, tokens })
CacheWrite(st, chain, merged) ==
    [st EXCEPT ![LsKey(chain)] =
        [present |-> TRUE, tokenreg |-> RegAddress, hasTokens |-> TRUE,
         tokens |-> merged]]

\* SetTokensAfterWrite, were the .catch missing from the chain
SetTokensAfterWriteNoCatch(s, ev) ==
    [s EXCEPT !.pc = IF ev = "storeSet" THEN "dispatch" ELSE "rejected",
              !.log = @ \o <<Event(ev, 0, 0)>>]

\* the call after the .then and the .catch of setTokens: the dispatch is next
SetTokensAfterWrite(s, ev) ==
    [s EXCEPT !.pc = "dispatch", !.log = @ \o <<Event(ev, 0, 0)>>]

\* the call after the last .then of setTokens
SetTokensAfterDispatch(s) ==
    [s EXCEPT !.pc = "resolved", !.dispatched = @ + 1,
              !.log = @ \o <<Event("dispatch", 0, 0)>>]

SetTokensGotContract(s) ==
    /\ calls[s].kind = "setTokens" /\ calls[s].pc = "getContract"
    /\ store' = CacheWrite(store, netChain, calls[s].merged)
    /\ calls' = [calls EXCEPT ![s] = SetTokensAfterWrite(@, "storeSet")]
    /\ UNCHANGED <<dappVars, tokens, iconImages, regCount, regImage, netChain, failures, userCalls>>

\* store.set throws: console.error, and the chain goes on
SetTokensWriteThrows(s) ==
    /\ calls[s].kind = "setTokens" /\ calls[s].pc = "getContract"
    /\ failures < MaxFailures
    /\ failures' = failures + 1
    /\ calls' = [calls EXCEPT ![s] = SetTokensAfterWrite(@, "storeSetThrew")]
    /\ UNCHANGED <<dappVars, tokens, store, iconImages, regCount, regImage, netChain, userCalls>>

\* tokenReg.getContract() rejects: console.error, and the chain goes on
SetTokensContractFailed(s) ==
    /\ calls[s].kind = "setTokens" /\ calls[s].pc = "getContract"
    /\ failures < MaxFailures
    /\ failures' = failures + 1
    /\ calls' = [calls EXCEPT ![s] = SetTokensAfterWrite(@, "getContractRejected")]
    /\ UNCHANGED <<dappVars, tokens, store, iconImages, regCount, regImage, netChain, userCalls>>

\* dispatch(_setTokens(nextTokens))
SetTokensDispatch(s) ==
    /\ calls[s].kind = "setTokens" /\ calls[s].pc = "dispatch"
    /\ tokens' = TokensReducer(tokens, calls[s].next)
    /\ calls' = [calls EXCEPT ![s] = SetTokensAfterDispatch(@)]
    /\ UNCHANGED <<dappVars, store, iconImages, regCount, regImage, netChain, failures, userCalls>>

(***************************************************************************)
(* The token synchronisation as a whole                                    *)
(***************************************************************************)
Next ==
    \/ CallLoadTokens
    \/ CallLoadTokensBasics
    \/ CallFetchTokens
    \/ RegistryImageChanges
    \/ \E c \in Ids : LoadTokensGotContract(c)
    \/ \E c \in Ids : LoadTokensCacheReadThrows(c)
    \/ \E c \in Ids : LoadTokensContractFailed(c)
    \/ \E c \in Ids : LoadTokensGotIds(c)
    \/ \E c \in Ids : LoadTokensIdsFailed(c)
    \/ \E c \in Ids : LoadTokensBasicsGotContract(c)
    \/ \E c \in Ids : LoadTokensBasicsContractFailed(c)
    \/ \E c \in Ids : LoadTokensBasicsGotBatch(c)
    \/ \E c \in Ids : LoadTokensBasicsBatchFailed(c)
    \/ \E c \in Ids : FetchTokensGotContract(c)
    \/ \E c \in Ids : FetchTokensContractFailed(c)
    \/ \E c \in Ids : FetchTokensDataGot(c)
    \/ \E c \in Ids : FetchTokensDataFailed(c)
    \/ \E c \in Ids : SetTokensGotContract(c)
    \/ \E c \in Ids : SetTokensWriteThrows(c)
    \/ \E c \in Ids : SetTokensContractFailed(c)
    \/ \E c \in Ids : SetTokensDispatch(c)

Spec == Init /\ [][Next]_vars

(***************************************************************************)
(* Properties of the token synchronisation                                 *)
(***************************************************************************)
IsKind(c, kind) == calls[c].kind = kind

\* the setTokens calls the call c has dispatched
SetTokensOf(c) == {s \in Ids : calls[s].kind = "setTokens" /\ calls[s].parent = c}

\* the fetchTokensBasics requests the call c has issued
BasicsRequests(c) ==
    {i \in 1..Len(calls[c].log) : calls[c].log[i].ev = "fetchTokensBasics"}

\* C1: a loadTokensBasics call never issues a fetchTokensBasics(start, 64)
\* request covering an index that a token of the state held when the call
\* was made; and when every requested index was already held, the call
\* issues no request and dispatches nothing.
C1_NeverRefetchesKnownIndex ==
    \A c \in Ids : IsKind(c, "loadTokensBasics") =>
        /\ \A i \in BasicsRequests(c) :
              Covered(calls[c].log[i].a, calls[c].log[i].b) \cap calls[c].prev = {}
        /\ calls[c].indexes = <<>> => (BasicsRequests(c) = {} /\ SetTokensOf(c) = {})

\* C2: fetchTokensData sends every requested index down exactly one path:
\* the image-only path when the state read at the start of the call holds a
\* token of that index with fetched = true, the full-info path otherwise;
\* and when the state held none of the requested indexes, the map it
\* dispatches has one entry per requested index, keyed by id.
C2_ClassificationExclusive ==
    \A d \in Ids : IsKind(d, "fetchTokensData") =>
        LET me == calls[d]
            WasFetched(i) == i \in DOMAIN me.seen /\ me.seen[i].fetched
        IN  /\ \A k \in 1..Len(me.indexes) :
                  LET i == me.indexes[k]
                  IN  IF WasFetched(i)
                      THEN i \in Elems(me.partial) /\ i \notin Elems(me.full)
                      ELSE i \in Elems(me.full) /\ i \notin Elems(me.partial)
            /\ Elems(me.full) \cup Elems(me.partial) \subseteq Elems(me.indexes)
            /\ Len(me.full) + Len(me.partial) = Len(me.indexes)
            /\ (me.seen = EmptyMap /\ me.pc = "resolved") =>
                  /\ me.full = me.indexes
                  /\ \A s \in SetTokensOf(d) :
                        DOMAIN calls[s].next = {TokenId(i) : i \in Elems(me.indexes)}
                  /\ SetTokensOf(d) # {}

C2_Witness ==
    /\ \E d \in Ids :
          /\ IsKind(d, "fetchTokensData") /\ calls[d].pc = "resolved"
          /\ calls[d].partial = <<0>> /\ calls[d].full = <<1, 2>>
    /\ \E s \in Ids : calls[s].pc = "resolved" /\ Cardinality(DOMAIN calls[s].next) = 3

\* C3: when loadTokens finds a cache entry of the current chain whose
\* registry address is not the resolved one, or which holds no token map,
\* the entry is removed, the state's tokens are left as they were and no
\* refresh is started; the state's tokens change, or a refresh starts, only
\* when the stored address is the resolved address.
C3_StaleCacheDiscarded ==
    [][\A c \in Ids :
          (/\ IsKind(c, "loadTokens") /\ calls[c].pc = "getContract"
           /\ calls'[c].pc = "fetchTokenIds") =>
              LET cached == store[LsKey(netChain)]
              IN  /\ (cached.present /\ (cached.tokenreg # RegAddress \/ ~cached.hasTokens)) =>
                        /\ ~store'[LsKey(netChain)].present
                        /\ tokens' = tokens
                        /\ Len(calls') = Len(calls)
                  /\ (tokens' # tokens \/ Len(calls') # Len(calls)) =>
                        /\ cached.present /\ cached.tokenreg = RegAddress
                        /\ tokens' = TokensReducer(tokens, cached.tokens)]_vars

C3_Witness ==
    \E c \in Ids :
        /\ IsKind(c, "loadTokens") /\ Logged(calls[c], "storeRemove")
        /\ calls[c].cached.tokenreg = StaleAddress /\ calls[c].cached.hasTokens
        /\ ~store[LsKey(netChain)].present /\ tokens = EmptyMap

\* C4: no rejection of a chain started by loadTokens, loadTokensBasics or
\* fetchTokens goes unhandled, the image refresh of a cache hit included,
\* and the promise these thunks return never rejects.
C4_NoRejectionEscapes ==
    \A c \in Ids :
        /\ calls[c].pc = "rejected" => calls[c].awaited
        /\ calls[c].kind \in {"loadTokens", "loadTokensBasics", "fetchTokens"} =>
              calls[c].pc # "rejected"

\* C6: every setTokens call dispatches its action exactly once, as the last
\* step of a chain that never rejects, whether getContract and the cache
\* write succeed or fail; until then it has dispatched nothing and its next
\* step can always be taken.
C6_SetTokensDispatchesOnce ==
    \A s \in Ids : IsKind(s, "setTokens") =>
        /\ calls[s].pc \in {"getContract", "dispatch", "resolved"}
        /\ calls[s].dispatched = IF calls[s].pc = "resolved" THEN 1 ELSE 0
        /\ calls[s].pc = "resolved" => DOMAIN calls[s].next \subseteq DOMAIN tokens
        /\ calls[s].pc = "getContract" => ENABLED SetTokensGotContract(s)
        /\ calls[s].pc = "dispatch" => ENABLED SetTokensDispatch(s)

C6_Witness ==
    /\ \E s \in Ids :
          /\ IsKind(s, "setTokens") /\ calls[s].pc = "resolved"
          /\ calls[s].dispatched = 1 /\ Logged(calls[s], "storeSetThrew")
          /\ calls[s].next # EmptyMap
    /\ failures > 0

\* C7: in a run of loadTokens that finds a valid cache entry, the cached
\* tokens are dispatched before fetchTokenIds is called, so they are in the
\* state from then on; loadTokensBasics, and its requests, start later still.
C7_HydrationBeforeFetch ==
    \A c \in Ids : IsKind(c, "loadTokens") =>
        LET me == calls[c]
            valid == me.cached.present /\ me.cached.tokenreg = RegAddress
                     /\ me.cached.hasTokens
        IN  /\ \A j \in 1..Len(me.log) :
                  (valid /\ me.log[j].ev = "fetchTokenIds") =>
                      \E i \in 1..(j - 1) : me.log[i].ev = "dispatchCached"
            /\ (valid /\ Logged(me, "fetchTokenIds")) =>
                  DOMAIN me.cached.tokens \subseteq DOMAIN tokens
            /\ \A b \in Ids :
                  (IsKind(b, "loadTokensBasics") /\ calls[b].parent = c) =>
                      Logged(me, "fetchTokenIds")

C7_Witness ==
    \E c \in Ids :
        /\ IsKind(c, "loadTokens") /\ calls[c].pc = "resolved"
        /\ Logged(calls[c], "dispatchCached") /\ Logged(calls[c], "fetchTokenIds")
        /\ calls[c].cached.hasTokens
        /\ \E b \in Ids : calls[b].parent = c /\ BasicsRequests(b) # {}

(***************************************************************************)
(* The dapp registry helpers: strings and bytes                            *)
(***************************************************************************)
MaxRegistry == 3

MaxBlocks == 2

MaxEvents == 2

MaxHashLen == 3

HexDigits == <<"0", "1", "2", "3", "4", "5", "6", "7",
               "8", "9", "a", "b", "c", "d", "e", "f">>

HexOfByte(b) == <<HexDigits[(b \div 16) + 1], HexDigits[(b % 16) + 1]>>

RECURSIVE HexOfBytes(_)
HexOfBytes(bytes) ==
    IF bytes = <<>> THEN <<>>
    ELSE HexOfByte(Head(bytes)) \o HexOfBytes(Tail(bytes))

\* bytesToHex of @parity/api: '0x', then two hex digits per byte
bytesToHex(bytes) == <<"0", "x">> \o HexOfBytes(bytes)

\* str.substr(2)
Substr2(str) == SubSeq(str, 3, Len(str))

DigitValue(ch) == (CHOOSE k \in 1..16 : HexDigits[k] = ch) - 1

RECURSIVE HexNumber(_)
HexNumber(digits) ==
    IF digits = <<>> THEN 0
    ELSE HexNumber(SubSeq(digits, 1, Len(digits) - 1)) * 16
         + DigitValue(digits[Len(digits)])

\* (new BigNumber(appId)).gt(0), for the '0x' strings bytesToHex makes
GtZero(appId) == Len(appId) > 2 /\ HexNumber(Substr2(appId)) > 0

\* all the sequences over `alphabet` of length at most n
RECURSIVE SeqsUpTo(_, _)
SeqsUpTo(alphabet, n) ==
    IF n = 0 THEN {<<>>}
    ELSE LET shorter == SeqsUpTo(alphabet, n - 1)
         IN  shorter \cup {Append(s, a) : s \in shorter, a \in alphabet}

(***************************************************************************)
(* The dapp registry helpers: the data they are given                      *)
(***************************************************************************)
\* the ids the registry contract may hold
AppIdBytes == {<<0, 0>>, <<0, 1>>, <<1, 0>>, <<171, 1>>, <<1, 171>>}

\* ../config/dappsViews.json and ../config/dappsBuiltin.json
ViewsJson == <<[id |-> <<"0", "x", "a", "b", "0", "1">>, isView |-> FALSE]>>

BuiltinJson == <<[id |-> <<"0", "x", "0", "1", "a", "b">>, isView |-> FALSE],
                 [id |-> <<>>, isView |-> FALSE]>>

\* const builtinApps = [].concat(viewsJson.map(..), builtinJson.filter(..))
builtinApps ==
    LET HasId(app) == app.id # <<>>
    IN  [k \in 1..Len(ViewsJson) |-> [ViewsJson[k] EXCEPT !.isView = TRUE]]
        \o SelectSeq(BuiltinJson, HasId)

\* the manifest ids the registry contract may hold
ManifestIds == {<<0, 0>>, <<0, 1>>, <<1, 0>>, <<171, 1>>}

\* the manifest hashes fetchManifest may be called with
HashArgs == SeqsUpTo({"0", "x", "1"}, MaxHashLen)

\* the app ids fetchRegistryApp may be called with
AppIdArgs == {<<>>, <<"0", "x", "0", "0", "0", "1">>}

\* what api.parity.dappsList() may resolve with
LocalLists == {<<>>,
               <<[id |-> <<"u", "i">>], [id |-> <<>>], [id |-> <<"a">>]>>}

\* the filter ids api.eth.newFilter may resolve with
FilterIds == {0, 1}

\* the app ids the events of one poll may carry
EventLists == SeqsUpTo({<<0, 1>>, <<1, 0>>}, MaxEvents)

(***************************************************************************)
(* The dapp registry helpers: calls                                        *)
(***************************************************************************)
\* A helper is called once the previous call has settled. The helpers share
\* no state: a call starts from the initial subscription state.
CanCall == dapp.out # "pending"

Begin(fn, pc) == [NoDappCall EXCEPT !.fn = fn, !.pc = pc, !.out = "pending"]

DappResolved(dp, result) ==
    [dp EXCEPT !.pc = "done", !.out = "resolved", !.result = result]

DappRejected(dp) == [dp EXCEPT !.pc = "done", !.out = "rejected"]

At(fn, pc) == dapp.fn = fn /\ dapp.pc = pc /\ dapp.out = "pending"

(***************************************************************************)
(* subscribeToChanges                                                      *)
(***************************************************************************)
CallSubscribeToChanges ==
    /\ CanCall
    /\ dapp' = Begin("subscribeToChanges", "getContract")
    /\ sub' = NoSubscription /\ polls' = <<>>
    /\ UNCHANGED tokenVars

\* dappReg.getContract() resolves: api.eth.newFilter is called
SubscribeGotContract ==
    /\ At("subscribeToChanges", "getContract")
    /\ dapp' = [dapp EXCEPT !.pc = "newFilter"]
    /\ UNCHANGED <<tokenVars, sub, polls>>

\* no .catch in subscribeToChanges: the returned promise rejects
SubscribeContractFailed ==
    /\ At("subscribeToChanges", "getContract")
    /\ dapp' = DappRejected(dapp)
    /\ UNCHANGED <<tokenVars, sub, polls>>

\* newFilter resolves: api.subscribe('eth_blockNumber', callback) is called
SubscribeGotFilter ==
    /\ At("subscribeToChanges", "newFilter")
    /\ \E filterId \in FilterIds :
          sub' = [sub EXCEPT !.filter = filterId, !.registered = TRUE]
    /\ dapp' = [dapp EXCEPT !.pc = "subscribe"]
    /\ UNCHANGED <<tokenVars, polls>>

SubscribeFilterFailed ==
    /\ At("subscribeToChanges", "newFilter")
    /\ dapp' = DappRejected(dapp)
    /\ UNCHANGED <<tokenVars, sub, polls>>

\* api.subscribe resolves with blockSubId: { block, filter } is returned
SubscribeSubscribed ==
    /\ At("subscribeToChanges", "subscribe")
    /\ dapp' = DappResolved(dapp, "handle")
    /\ UNCHANGED <<tokenVars, sub, polls>>

SubscribeFailed ==
    /\ At("subscribeToChanges", "subscribe")
    /\ dapp' = DappRejected(dapp)
    /\ sub' = [sub EXCEPT !.registered = FALSE]
    /\ UNCHANGED <<tokenVars, polls>>

NoPoll == [pc |-> "pending", events |-> <<>>, called |-> <<>>]

\* ChangedIds, were the ids not passed to uniq
ChangedIdsAll(events) == [k \in 1..Len(events) |-> bytesToHex(events[k])]

\* the ids the callback is given: uniq(events.map(bytesToHex(id)))
ChangedIds(events) == uniq([k \in 1..Len(events) |-> bytesToHex(events[k])])

\* the block subscription calls back: api.eth.getFilterChanges(filterId)
NewBlock ==
    /\ sub.registered /\ sub.blocks < MaxBlocks
    /\ sub' = [sub EXCEPT !.blocks = @ + 1]
    /\ polls' = IF sub.filter > -1 THEN Append(polls, NoPoll) ELSE polls
    /\ UNCHANGED <<tokenVars, dapp>>

\* getFilterChanges resolves, the logs are parsed: callback(ids) unless
\* there is no event
PollGotLogs(p) ==
    /\ polls[p].pc = "pending"
    /\ \E events \in EventLists :
          polls' = [polls EXCEPT ![p] =
              [pc |-> "done", events |-> events,
               called |-> IF Len(events) = 0 THEN <<>>
                          ELSE <<ChangedIds(events)>>]]
    /\ UNCHANGED <<tokenVars, dapp, sub>>

\* getFilterChanges rejects or parseEventLogs throws: nothing catches it
PollFailed(p) ==
    /\ polls[p].pc = "pending"
    /\ polls' = [polls EXCEPT ![p].pc = "rejected"]
    /\ UNCHANGED <<tokenVars, dapp, sub>>

(***************************************************************************)
(* fetchBuiltinApps and fetchLocalApps                                     *)
(***************************************************************************)
CallFetchBuiltinApps ==
    /\ CanCall
    /\ dapp' = Begin("fetchBuiltinApps", "getImage")
    /\ sub' = NoSubscription /\ polls' = <<>>
    /\ UNCHANGED tokenVars

BuiltinGotImages ==
    /\ At("fetchBuiltinApps", "getImage")
    /\ dapp' = DappResolved(
          [dapp EXCEPT !.apps =
              [k \in 1..Len(builtinApps) |->
                  [id |-> builtinApps[k].id,
                   type |-> IF builtinApps[k].isView THEN "view" ELSE "builtin"]]],
          "apps")
    /\ UNCHANGED <<tokenVars, sub, polls>>

BuiltinImagesFailed ==
    /\ At("fetchBuiltinApps", "getImage")
    /\ dapp' = DappResolved(dapp, "undefined")
    /\ UNCHANGED <<tokenVars, sub, polls>>

CallFetchLocalApps ==
    /\ CanCall
    /\ dapp' = Begin("fetchLocalApps", "dappsList")
    /\ sub' = NoSubscription /\ polls' = <<>>
    /\ UNCHANGED tokenVars

LocalGotList ==
    /\ At("fetchLocalApps", "dappsList")
    /\ \E apps \in LocalLists :
          LET Kept(app) == app.id # <<>> /\ app.id # <<"u", "i">>
              local == [k \in 1..Len(apps) |-> [id |-> apps[k].id, type |-> "local"]]
          IN  dapp' = DappResolved([dapp EXCEPT !.apps = SelectSeq(local, Kept)], "apps")
    /\ UNCHANGED <<tokenVars, sub, polls>>

LocalListFailed ==
    /\ At("fetchLocalApps", "dappsList")
    /\ dapp' = DappResolved(dapp, "undefined")
    /\ UNCHANGED <<tokenVars, sub, polls>>

(***************************************************************************)
(* fetchRegistryAppIds                                                     *)
(***************************************************************************)
\* KeepsAppId, were the builtin apps not looked up
KeepsAppIdNoBuiltin(appId) == GtZero(appId)

\* the filter of fetchRegistryAppIds
KeepsAppId(appId) ==
    GtZero(appId) /\ ~(\E k \in 1..Len(builtinApps) : builtinApps[k].id = appId)

\* what fetchRegistryAppIds resolves with for the entries at(index) returned
RegistryAppIds(appsInfo) ==
    uniq(SelectSeq([k \in 1..Len(appsInfo) |-> bytesToHex(appsInfo[k])], KeepsAppId))

CallFetchRegistryAppIds ==
    /\ CanCall
    /\ dapp' = Begin("fetchRegistryAppIds", "count")
    /\ sub' = NoSubscription /\ polls' = <<>>
    /\ UNCHANGED tokenVars

\* dappReg.count() resolves: dappReg.at(index) for every index below it
AppIdsGotCount ==
    /\ At("fetchRegistryAppIds", "count")
    /\ \E count \in 0..MaxRegistry : dapp' = [dapp EXCEPT !.pc = "at", !.count = count]
    /\ UNCHANGED <<tokenVars, sub, polls>>

AppIdsCountFailed ==
    /\ At("fetchRegistryAppIds", "count")
    /\ dapp' = DappResolved(dapp, "undefined")
    /\ UNCHANGED <<tokenVars, sub, polls>>

AppIdsGotEntries ==
    /\ At("fetchRegistryAppIds", "at")
    /\ \E appsInfo \in [1..dapp.count -> AppIdBytes] :
          dapp' = DappResolved(
              [dapp EXCEPT !.entries = appsInfo, !.ids = RegistryAppIds(appsInfo)],
              "ids")
    /\ UNCHANGED <<tokenVars, sub, polls>>

AppIdsEntriesFailed ==
    /\ At("fetchRegistryAppIds", "at")
    /\ dapp' = DappResolved(dapp, "undefined")
    /\ UNCHANGED <<tokenVars, sub, polls>>

(***************************************************************************)
(* fetchRegistryApp and fetchManifest                                      *)
(***************************************************************************)
\* ManifestHashIsZero, were the expression anchored at the end: /^(0x)?0+$/
ManifestHashAllZero(manifestHash) ==
    LET ZerosFrom(p) == p < Len(manifestHash)
                        /\ \A k \in (p + 1)..Len(manifestHash) : manifestHash[k] = "0"
    IN  \/ ZerosFrom(0)
        \/ /\ Len(manifestHash) >= 2
           /\ manifestHash[1] = "0" /\ manifestHash[2] = "x"
           /\ ZerosFrom(2)

\* /^(0x)?0+/.test(manifestHash): with the group taken or, failing that,
\* skipped, a "0" follows
ManifestHashIsZero(manifestHash) ==
    LET ZeroAt(p) == p <= Len(manifestHash) /\ manifestHash[p] = "0"
        group == Len(manifestHash) >= 2
                 /\ manifestHash[1] = "0" /\ manifestHash[2] = "x"
    IN  (group /\ ZeroAt(3)) \/ ZeroAt(1)

\* the value null, among strings held as sequences of characters
Null == <<"null">>

\* a string that is neither null nor empty
Truthy(str) == str # Null /\ str # <<>>

\* the manifest fields fetchRegistryApp copies
ManifestFields == {"author", "description", "name", "version"}

\* the manifests /api/content/<hash>/ may answer with
Manifests ==
    {[author |-> "author1", description |-> "description1", name |-> "name1",
      version |-> "version1", iconUrl |-> "icon1"],
     [name |-> "name2", id |-> "id2", manifestHash |-> "hash2"],
     <<>>}

\* lodash pick
pick(object, keys) == [k \in (DOMAIN object) \cap keys |-> object[k]]

\* the app fetchRegistryApp builds from the registry's answers
NewApp(appId, manifestHash) ==
    [id |-> appId, manifestHash |-> manifestHash, type |-> "network",
     visible |-> TRUE]

\* the app once fetchManifest has answered
AppWithManifest(app, manifest, json) ==
    IF manifest = "manifest"
    THEN ObjectSpread([app EXCEPT !.manifestHash = Null], pick(json, ManifestFields))
    ELSE app

\* KeptDapp, were the id of the app not looked at
KeptDappAnyId(app) ==
    IF Truthy(app.manifestHash) THEN "null" ELSE "app"

\* the last .then of fetchRegistryApp: the app is kept when it has a
\* manifest and an id
KeptDapp(app) ==
    IF Truthy(app.manifestHash) \/ ~Truthy(app.id) THEN "null" ELSE "app"

\* fetchManifest has its answer: it is what fetchManifest resolves with, and
\* what fetchRegistryApp goes on with
ManifestSettled(dp, manifest) ==
    LET app == AppWithManifest(NewApp(dp.appId, dp.hash), manifest, dp.json)
        got == [dp EXCEPT !.manifest = manifest]
    IN  IF dp.fn = "fetchManifest" THEN DappResolved(got, manifest)
        ELSE DappResolved([got EXCEPT !.app = app], KeptDapp(app))

\* fetchManifest(api, manifestHash) up to the fetch
FetchManifestStart(dp, manifestHash) ==
    IF ManifestHashIsZero(manifestHash)
    THEN ManifestSettled([dp EXCEPT !.hash = manifestHash, !.cause = "zeroHash"], "null")
    ELSE [dp EXCEPT !.hash = manifestHash, !.pc = "fetch",
                    !.gets = Append(@, manifestHash)]

CallFetchManifest ==
    /\ CanCall
    /\ \E manifestHash \in HashArgs :
          dapp' = FetchManifestStart(Begin("fetchManifest", "test"), manifestHash)
    /\ sub' = NoSubscription /\ polls' = <<>>
    /\ UNCHANGED tokenVars

CallFetchRegistryApp ==
    /\ CanCall
    /\ \E appId \in AppIdArgs :
          dapp' = [Begin("fetchRegistryApp", "hashes") EXCEPT !.appId = appId]
    /\ sub' = NoSubscription /\ polls' = <<>>
    /\ UNCHANGED tokenVars

\* getImage, getContent and getManifest resolve: fetchManifest is called
\* with bytesToHex(manifestId).substr(2)
AppGotHashes ==
    /\ At("fetchRegistryApp", "hashes")
    /\ \E manifestId \in ManifestIds :
          dapp' = FetchManifestStart([dapp EXCEPT !.manifestId = manifestId],
                                     Substr2(bytesToHex(manifestId)))
    /\ UNCHANGED <<tokenVars, sub, polls>>

AppHashesFailed ==
    /\ At("fetchRegistryApp", "hashes")
    /\ dapp' = DappResolved(dapp, "undefined")
    /\ UNCHANGED <<tokenVars, sub, polls>>

\* the fetch resolves: response.json() when response.ok, else null; a
\* rejection of response.json() is caught and gives null
ManifestResponded ==
    /\ dapp.pc = "fetch" /\ dapp.out = "pending"
    /\ \/ \E json \in Manifests :
              dapp' = ManifestSettled([dapp EXCEPT !.json = json], "manifest")
       \/ \E outcome \in {"notOk", "jsonRejected"} :
              dapp' = ManifestSettled([dapp EXCEPT !.cause = outcome], "null")
    /\ UNCHANGED <<tokenVars, sub, polls>>

\* the fetch rejects: console.warn, null
ManifestFetchFailed ==
    /\ dapp.pc = "fetch" /\ dapp.out = "pending"
    /\ dapp' = ManifestSettled([dapp EXCEPT !.cause = "fetchError"], "null")
    /\ UNCHANGED <<tokenVars, sub, polls>>

(***************************************************************************)
(* The dapp registry helpers as a whole                                    *)
(***************************************************************************)
\* the token state while only the dapp registry helpers run
TokenIdle ==
    /\ tokens = EmptyMap
    /\ netChain = "kovan"
    /\ regCount = SmallCount
    /\ store = [k \in LsKeys |-> NoEntry]
    /\ iconImages = EmptyMap
    /\ calls = <<>>
    /\ regImage = 1
    /\ failures = 0
    /\ userCalls = 0

InitDapps == TokenIdle /\ DappInit

NextDapps ==
    \/ CallSubscribeToChanges
    \/ SubscribeGotContract
    \/ SubscribeContractFailed
    \/ SubscribeGotFilter
    \/ SubscribeFilterFailed
    \/ SubscribeSubscribed
    \/ SubscribeFailed
    \/ NewBlock
    \/ \E p \in 1..Len(polls) : PollGotLogs(p)
    \/ \E p \in 1..Len(polls) : PollFailed(p)
    \/ CallFetchBuiltinApps
    \/ BuiltinGotImages
    \/ BuiltinImagesFailed
    \/ CallFetchLocalApps
    \/ LocalGotList
    \/ LocalListFailed
    \/ CallFetchRegistryAppIds
    \/ AppIdsGotCount
    \/ AppIdsCountFailed
    \/ AppIdsGotEntries
    \/ AppIdsEntriesFailed
    \/ CallFetchManifest
    \/ CallFetchRegistryApp
    \/ AppGotHashes
    \/ AppHashesFailed
    \/ ManifestResponded
    \/ ManifestFetchFailed

SpecDapps == InitDapps /\ [][NextDapps]_vars

(***************************************************************************)
(* Properties of the dapp registry helpers                                 *)
(***************************************************************************)
\* C5: the promise an exported helper returns never rejects, whichever
\* collaborator fails, and no poll of subscribeToChanges ends in a
\* rejection that nothing handles.
C5_HelpersNeverReject ==
    /\ dapp.out # "rejected"
    /\ \A p \in 1..Len(polls) : polls[p].pc # "rejected"

\* the string has a hex digit other than "0" after its '0x'
HasNonZeroDigit(appId) == \E k \in 3..Len(appId) : appId[k] # "0"

\* the id of a builtin or view app
IsBuiltinId(appId) ==
    \/ \E k \in 1..Len(ViewsJson) : ViewsJson[k].id = appId
    \/ \E k \in 1..Len(BuiltinJson) : BuiltinJson[k].id = appId

\* C8: the list fetchRegistryAppIds resolves with holds no id twice, no id
\* of a builtin or view app and no zero id, and holds every other id the
\* registry returned (and nothing else).
C8_RegistryAppIds ==
    (dapp.fn = "fetchRegistryAppIds" /\ dapp.result = "ids") =>
        LET ids == dapp.ids
            registered == {bytesToHex(dapp.entries[k]) : k \in 1..Len(dapp.entries)}
        IN  /\ \A i, j \in 1..Len(ids) : i # j => ids[i] # ids[j]
            /\ \A i \in 1..Len(ids) : ~IsBuiltinId(ids[i]) /\ HasNonZeroDigit(ids[i])
            /\ \A id \in registered :
                  (~IsBuiltinId(id) /\ HasNonZeroDigit(id)) => id \in Elems(ids)
            /\ Elems(ids) \subseteq registered

C8_Witness ==
    /\ dapp.fn = "fetchRegistryAppIds" /\ dapp.result = "ids"
    /\ dapp.entries = <<<<0, 1>>, <<171, 1>>, <<0, 1>>>>
    /\ dapp.ids = <<<<"0", "x", "0", "0", "0", "1">>>>

\* C9: in fetchRegistryApp, a manifest hash with a hex digit other than 0
\* is fetched with a GET of /api/content/<manifestHash>/, and an all-zero
\* hash is not fetched.
C9_NonZeroHashFetched ==
    (dapp.fn = "fetchRegistryApp" /\ dapp.hash # <<>>) =>
        IF \E k \in 1..Len(dapp.hash) : dapp.hash[k] # "0"
        THEN dapp.gets = <<dapp.hash>>
        ELSE dapp.gets = <<>>

\* the hash starts with an optional "0x" followed by at least one "0"
ZeroPrefixed(h) ==
    \E p \in {0, 2} :
        /\ p = 2 => (Len(h) >= 2 /\ h[1] = "0" /\ h[2] = "x")
        /\ \E n \in 1..(Len(h) - p) : \A k \in 1..n : h[p + k] = "0"

\* C10: for a manifest hash that matches /^(0x)?0+/, fetchManifest resolves
\* with null and issues no HTTP request.
C10_ZeroHashNotFetched ==
    (dapp.fn \in {"fetchManifest", "fetchRegistryApp"} /\ dapp.pc \in {"fetch", "done"}
     /\ dapp.result # "undefined" /\ ZeroPrefixed(dapp.hash)) =>
        /\ dapp.manifest = "null"
        /\ dapp.gets = <<>>
        /\ dapp.fn = "fetchManifest" => (dapp.out = "resolved" /\ dapp.result = "null")

C10_Witness ==
    /\ dapp.fn = "fetchManifest" /\ dapp.out = "resolved"
    /\ dapp.hash = <<"0", "x", "0">>
    /\ dapp.result = "null" /\ dapp.gets = <<>>

\* C11: fetchRegistryApp resolves with an app exactly when fetchManifest
\* gave a manifest and the app id is not empty; with a zero hash, a response
\* that is not ok or a failed fetch it resolves with null; the app it
\* resolves with has manifestHash null, the id it was asked for and the
\* author, description, name and version of the manifest, and no other
\* field of the manifest.
C11_KeptExactlyWithManifestAndId ==
    (dapp.fn = "fetchRegistryApp" /\ dapp.out = "resolved") =>
        /\ (dapp.result = "app") <=> (dapp.manifest = "manifest" /\ dapp.appId # <<>>)
        /\ dapp.cause \in {"zeroHash", "notOk", "jsonRejected", "fetchError"}
              => dapp.result = "null"
        /\ dapp.result = "app" =>
              /\ dapp.app.manifestHash = <<"null">>
              /\ dapp.app.id = dapp.appId
              /\ \A f \in {"author", "description", "name", "version"} :
                    IF f \in DOMAIN dapp.json
                    THEN f \in DOMAIN dapp.app /\ dapp.app[f] = dapp.json[f]
                    ELSE f \notin DOMAIN dapp.app
              /\ DOMAIN dapp.app \subseteq
                    {"id", "manifestHash", "type", "visible",
                     "author", "description", "name", "version"}

C11_Witness ==
    /\ dapp.fn = "fetchRegistryApp" /\ dapp.out = "resolved"
    /\ dapp.result = "app" /\ dapp.appId # <<>>
    /\ dapp.hash = <<"a", "b", "0", "1">>
    /\ "author" \in DOMAIN dapp.app /\ dapp.app.author = "author1"
    /\ "iconUrl" \in DOMAIN dapp.json

\* C12: when fetchTokensData is asked for the index of a token X that the
\* state holds with fetched = true, X goes down the image-only path, and
\* the dispatch of the result changes no field of X in the state other
\* than image, whatever was dispatched for X since the fetch started.
C12_OnlyImageChanges ==
    [][\A s \in Ids :
          (/\ IsKind(s, "setTokens") /\ calls[s].pc = "dispatch"
           /\ calls'[s].pc = "resolved"
           /\ calls[s].parent # 0
           /\ IsKind(calls[s].parent, "fetchTokensData")) =>
              LET d == calls[calls[s].parent]
              IN  \A i \in Elems(d.partial) :
                      LET X == TokenId(i)
                      IN  /\ i \notin Elems(d.full)
                          /\ X \in DOMAIN tokens /\ X \in DOMAIN tokens'
                          /\ tokens'[X].id = tokens[X].id
                          /\ tokens'[X].index = tokens[X].index
                          /\ tokens'[X].fetched = tokens[X].fetched]_vars

(***************************************************************************)
(* Two loadTokens invocations under way at once                            *)
(***************************************************************************)
\* the loadTokens invocations made since the application's last reset
LoadTokensCalls == {c \in Ids : calls[c].kind = "loadTokens"}

\* the application invokes loadTokens while the chain of an earlier
\* invocation is still under way
CallLoadTokensRacing ==
    /\ userCalls < MaxUserCalls /\ ~Quiescent
    /\ Cardinality(LoadTokensCalls) = 1
    /\ userCalls' = userCalls + 1
    /\ calls' = Append(calls,
          [NoCall EXCEPT !.kind = "loadTokens", !.pc = "getContract",
                         !.log = <<Event("getContract", 0, 0)>>])
    /\ UNCHANGED <<dappVars, tokens, store, iconImages, regCount, regImage, netChain, failures>>

\* the second invocation is made on a registry of SmallCount tokens whose
\* cache entry, if any, is not one loadCachedTokens accepts
InitRace ==
    /\ Init
    /\ regCount = SmallCount
    /\ LET cached == store[LsKey(netChain)]
       IN  ~(cached.present /\ cached.tokenreg = RegAddress /\ cached.hasTokens)

NextRace ==
    \/ CallLoadTokens
    \/ CallLoadTokensRacing
    \/ \E c \in Ids : LoadTokensGotContract(c)
    \/ \E c \in Ids : LoadTokensCacheReadThrows(c)
    \/ \E c \in Ids : LoadTokensContractFailed(c)
    \/ \E c \in Ids : LoadTokensGotIds(c)
    \/ \E c \in Ids : LoadTokensIdsFailed(c)
    \/ \E c \in Ids : LoadTokensBasicsGotContract(c)
    \/ \E c \in Ids : LoadTokensBasicsContractFailed(c)
    \/ \E c \in Ids : LoadTokensBasicsGotBatch(c)
    \/ \E c \in Ids : LoadTokensBasicsBatchFailed(c)
    \/ \E c \in Ids : FetchTokensDataGot(c)
    \/ \E c \in Ids : FetchTokensDataFailed(c)
    \/ \E c \in Ids : SetTokensGotContract(c)
    \/ \E c \in Ids : SetTokensWriteThrows(c)
    \/ \E c \in Ids : SetTokensContractFailed(c)
    \/ \E c \in Ids : SetTokensDispatch(c)

SpecRace == InitRace /\ [][NextRace]_vars

\* the registry slots the fetchTokensBasics requests of the call b cover
FetchedByBasics(b) ==
    UNION {Covered(calls[b].log[i].a, calls[b].log[i].b) : i \in BasicsRequests(b)}

\* the loadTokensBasics calls b1 and b2 belong to two loadTokens invocations,
\* and neither invocation has dispatched anything yet
BothReadBeforeDispatch(b1, b2) ==
    /\ b1 # b2
    /\ IsKind(b1, "loadTokensBasics") /\ IsKind(b2, "loadTokensBasics")
    /\ calls[b1].parent # 0 /\ calls[b2].parent # 0
    /\ calls[b1].parent # calls[b2].parent
    /\ \A b \in {b1, b2} :
          /\ ~Logged(calls[calls[b].parent], "dispatchCached")
          /\ \A s \in SetTokensOf(b) : calls[s].dispatched = 0

\* C13: nothing keeps two loadTokens invocations from fetching the same
\* tokens: when both have read the token map before either has dispatched,
\* both keep the same indexes to fetch, and once both have issued their
\* requests every such index is requested from the registry by both.
C13_DuplicateFetchNotPrevented ==
    \A b1, b2 \in Ids : BothReadBeforeDispatch(b1, b2) =>
        /\ calls[b1].indexes = calls[b2].indexes
        /\ (BasicsRequests(b1) # {} /\ BasicsRequests(b2) # {}) =>
              \A k \in 1..Len(calls[b1].indexes) :
                  calls[b1].indexes[k] \in FetchedByBasics(b1) \cap FetchedByBasics(b2)

C13_Witness ==
    \E b1, b2 \in Ids :
        /\ BothReadBeforeDispatch(b1, b2)
        /\ BasicsRequests(b1) # {} /\ BasicsRequests(b2) # {}
        /\ 0 \in Elems(calls[b1].indexes) \cap Elems(calls[b2].indexes)
        /\ 0 \in FetchedByBasics(b1) \cap FetchedByBasics(b2)
        /\ TokenId(0) \notin DOMAIN tokens

\* the positions in the trace of c, before position i, of the events `ev`
EventsBefore(c, ev, i) == {j \in 1..(i - 1) : calls[c].log[j].ev = ev}

\* C14: a loadTokensBasics call that keeps n >= 1 indexes issues
\* ceil(n / 64) fetchTokensBasics requests, for the starts 0, 64, 128, ...,
\* each one only after every earlier one has resolved; it hands the merged
\* results of all of them to one setTokens, after the last batch; after a
\* failed batch it issues no request and hands nothing to setTokens.
C14_BatchesSequentialOneDispatch ==
    \A c \in Ids : IsKind(c, "loadTokensBasics") =>
        LET me == calls[c]
            n == Len(me.indexes)
            batches == (n + 63) \div 64
            reqs == BasicsRequests(c)
            resolved == EventsBefore(c, "fetchTokensBasicsResolved", Len(me.log) + 1)
            rejected == EventsBefore(c, "fetchTokensBasicsRejected", Len(me.log) + 1)
            results == UNION {FetchTokensBasicsResult(regCount, me.log[i].a, 64) : i \in reqs}
        IN  /\ Cardinality(reqs) <= batches
            /\ \A i \in reqs :
                  LET earlier == EventsBefore(c, "fetchTokensBasics", i)
                  IN  /\ me.log[i].a = 64 * Cardinality(earlier) /\ me.log[i].b = 64
                      /\ Cardinality(EventsBefore(c, "fetchTokensBasicsResolved", i))
                            = Cardinality(earlier)
                      /\ EventsBefore(c, "fetchTokensBasicsRejected", i) = {}
            /\ Cardinality(reqs) - Cardinality(resolved) - Cardinality(rejected) \in {0, 1}
            /\ Cardinality(SetTokensOf(c)) <= 1
            /\ \A s \in SetTokensOf(c) :
                  /\ Cardinality(resolved) = batches /\ rejected = {}
                  /\ calls[s].next = ById(results)
            /\ (me.pc = "resolved" /\ n >= 1 /\ ~Logged(me, "warn")) =>
                  /\ Cardinality(reqs) = batches
                  /\ Cardinality(SetTokensOf(c)) = 1
            /\ Logged(me, "warn") => (me.pc = "resolved" /\ SetTokensOf(c) = {})

C14_Witness ==
    \E c \in Ids :
        /\ IsKind(c, "loadTokensBasics") /\ calls[c].pc = "resolved"
        /\ Len(calls[c].indexes) = 65
        /\ Cardinality(BasicsRequests(c)) = 2
        /\ \E s \in SetTokensOf(c) : Cardinality(DOMAIN calls[s].next) = 65

\* the fetchTokensData calls the fetchTokens call p has made, one per chunk
ChunkCalls(p) ==
    {d \in Ids : calls[d].kind = "fetchTokensData" /\ calls[d].parent = p
                 /\ calls[d].awaited}

\* C15: the chunks fetchTokens hands to fetchTokensData hold between 1 and
\* 64 of the requested indices each, no index twice, and once every chunk
\* is done each distinct requested index is in exactly one of them; a
\* chunk is started only when the fetches of every earlier chunk have
\* resolved; after a chunk has failed no later chunk is started, and what
\* the earlier chunks have dispatched is still in the state.
C15_ChunksSequential ==
    \A p \in Ids : IsKind(p, "fetchTokens") =>
        LET me == calls[p]
            kids == ChunkCalls(p)
            distinct == Elems(me.request)
        IN  /\ \A d \in kids :
                  /\ Len(calls[d].indexes) \in 1..64
                  /\ Cardinality(Elems(calls[d].indexes)) = Len(calls[d].indexes)
                  /\ Elems(calls[d].indexes) \subseteq distinct
            /\ \A d1, d2 \in kids :
                  d1 # d2 => Elems(calls[d1].indexes) \cap Elems(calls[d2].indexes) = {}
            /\ Cardinality(kids) <= (Cardinality(distinct) + 63) \div 64
            /\ (me.pc = "resolved" /\ ~Logged(me, "warn")) =>
                  /\ UNION {Elems(calls[d].indexes) : d \in kids} = distinct
                  /\ \A d \in kids : calls[d].pc = "resolved"
            /\ \A d1, d2 \in kids : d1 < d2 => calls[d1].pc = "resolved"
            /\ \A d \in kids : calls[d].pc = "rejected" =>
                  /\ me.pc = "resolved" /\ Logged(me, "warn")
            /\ \A d \in kids : \A s \in SetTokensOf(d) :
                  calls[s].dispatched = 1 =>
                      \A id \in DOMAIN calls[s].next :
                          id \in DOMAIN tokens /\ tokens[id] = calls[s].next[id]

C15_Witness ==
    \E p \in Ids :
        /\ IsKind(p, "fetchTokens") /\ calls[p].pc = "resolved"
        /\ Logged(calls[p], "warn")
        /\ Cardinality(Elems(calls[p].request)) = 65
        /\ \E d1, d2 \in ChunkCalls(p) :
              /\ d1 < d2
              /\ Len(calls[d1].indexes) = 64 /\ calls[d2].indexes = <<64>>
              /\ calls[d2].pc = "rejected"
              /\ \E s \in SetTokensOf(d1) : calls[s].dispatched = 1
        /\ Cardinality(DOMAIN tokens) = 64

\* C16: a failure to read the cache entry does not stop loadTokens: once
\* the registry contract is resolved the call goes on to fetchTokenIds, and
\* when that resolves to loadTokensBasics, whether or not the read of the
\* cache entry threw.
C16_CacheLoadBestEffort ==
    \A c \in Ids :
        (/\ IsKind(c, "loadTokens") /\ calls[c].pc = "resolved"
         /\ ~Logged(calls[c], "getContractRejected")) =>
            /\ Logged(calls[c], "fetchTokenIds")
            /\ ~Logged(calls[c], "fetchTokenIdsRejected") =>
                  \E b \in Ids : IsKind(b, "loadTokensBasics") /\ calls[b].parent = c

\* C17: once the filter is set up, every new-block notification starts one
\* poll of it; a poll that returned events invokes the callback once, with
\* the ids of its events, each once; a poll that returned no event, or that
\* has not returned, does not invoke the callback.
C17_OneCallbackPerPoll ==
    /\ sub.filter > -1 => Len(polls) = sub.blocks
    /\ \A p \in 1..Len(polls) :
          LET poll == polls[p]
              ids == {bytesToHex(poll.events[k]) : k \in 1..Len(poll.events)}
          IN  /\ Len(poll.called) <= 1
              /\ (poll.pc = "done" /\ poll.events # <<>>) <=> Len(poll.called) = 1
              /\ Len(poll.called) = 1 =>
                    /\ poll.called[1] # <<>>
                    /\ Elems(poll.called[1]) = ids
                    /\ Len(poll.called[1]) = Cardinality(ids)

C17_Witness ==
    /\ dapp.fn = "subscribeToChanges" /\ dapp.out = "resolved"
    /\ sub.blocks = 2 /\ Len(polls) = 2
    /\ \E p, q \in 1..Len(polls) :
          /\ polls[p].pc = "done" /\ polls[p].events = <<<<0, 1>>, <<0, 1>>>>
          /\ polls[p].called = <<<<bytesToHex(<<0, 1>>)>>>>
          /\ polls[q].pc = "done" /\ polls[q].events = <<>> /\ polls[q].called = <<>>

\* the image refresh the loadTokens call c started, if any
RefreshOf(c) ==
    {d \in Ids : calls[d].kind = "fetchTokensData" /\ calls[d].parent = c
                 /\ ~calls[d].awaited}

\* C18: a loadTokens call that accepts the cache entry starts one refresh,
\* for the indices of the cached tokens with fetched = true and no other;
\* the refresh sends every one of them down the image-only path and asks
\* full info for none.
C18_CachedRefreshImageOnly ==
    \A c \in Ids : IsKind(c, "loadTokens") =>
        LET cachedTokens == calls[c].cached.tokens
            fetchedCached == {cachedTokens[k].index :
                                 k \in {j \in DOMAIN cachedTokens : cachedTokens[j].fetched}}
        IN  /\ Logged(calls[c], "dispatchCached") <=> RefreshOf(c) # {}
            /\ Cardinality(RefreshOf(c)) <= 1
            /\ \A d \in RefreshOf(c) :
                  /\ Elems(calls[d].indexes) = fetchedCached
                  /\ Len(calls[d].indexes) = Cardinality(fetchedCached)
                  /\ calls[d].partial = calls[d].indexes
                  /\ calls[d].full = <<>>
                  /\ \A i \in 1..Len(calls[d].log) :
                        calls[d].log[i].ev = "fetchTokensInfo" => calls[d].log[i].a = 0

C18_Witness ==
    \E c \in Ids :
        /\ IsKind(c, "loadTokens")
        /\ calls[c].cached.tokens = CachedTokens
        /\ \E d \in RefreshOf(c) :
              /\ calls[d].pc = "resolved" /\ calls[d].partial = <<0>>
              /\ \E s \in SetTokensOf(d) : calls[s].dispatched = 1

\* C19: once every call has completed, after setTokens calls whose
\* getContract and store.set all succeeded, the entry stored under the key
\* of the current chain holds the address of the registry contract and a
\* token map equal to the one in the state.
C19_CacheEqualsState ==
    (/\ Quiescent
     /\ \E s \in Ids : IsKind(s, "setTokens")
     /\ \A s \in Ids : IsKind(s, "setTokens") =>
           (calls[s].dispatched = 1 /\ Logged(calls[s], "storeSet"))) =>
        LET cached == store[LsKey(netChain)]
        IN  /\ cached.present /\ cached.hasTokens
            /\ cached.tokenreg = RegAddress
            /\ cached.tokens = tokens

\* C20: when the promise of fetchTokens has resolved with no failure, the
\* state holds a token for every index of every chunk; and from the moment
\* a chunk is classified on, the tokens of the chunk before it have been
\* dispatched into the state.
C20_ChunkDispatchedBeforeNext ==
    \A p \in Ids : IsKind(p, "fetchTokens") =>
        /\ (calls[p].pc = "resolved" /\ ~Logged(calls[p], "warn")) =>
              \A d \in ChunkCalls(p) :
                  /\ \A s \in SetTokensOf(d) : calls[s].dispatched = 1
                  /\ \A k \in 1..Len(calls[d].indexes) :
                        TokenId(calls[d].indexes[k]) \in DOMAIN tokens
        /\ \A d1, d2 \in ChunkCalls(p) :
              d1 < d2 =>
                  /\ SetTokensOf(d1) # {}
                  /\ \A s \in SetTokensOf(d1) :
                        /\ calls[s].dispatched = 1
                        /\ DOMAIN calls[s].next \subseteq DOMAIN tokens

=============================================================================
